---- MODULE Spec2Model ----
(***************************************************************************)
(* A model of the two EC fan programs of this repository:                  *)
(*   ec_fans_monitor.py  the single-key monitor ("monitor variant")        *)
(*   gmk_fan.py          the menu program ("menu variant")                 *)
(* The EC device file /sys/kernel/debug/ec/ec0/io is a byte-addressable    *)
(* file of ECSize bytes.  Opening it may fail: the file is absent when the  *)
(* ec_sys module is not loaded, and it cannot be opened for writing when   *)
(* the module was loaded without write support.  The environment changes   *)
(* this between the steps of a program.                                    *)
(***************************************************************************)
EXTENDS Integers, Sequences, FiniteSets, TLC

VARIABLES
    prog,          \* which program runs: "monitor", "menu", "pct" or "roundtrip"
    dev,           \* the device file: "absent", "readonly" or "readwrite"
    ec,            \* the EC device file: offset -> byte
    pc,            \* position of the running program
    out,           \* messages printed by the last step, in order
    slept,         \* the last step ended a menu iteration with time.sleep(2)
    writes,        \* register writes issued by the last step: <<offset, value, ok>>
    failed,        \* number of opens of the device file that failed in the last step
    PWM_VALUES,    \* monitor: tracked PWM value per fan index
    selected_fan,  \* monitor: index of the selected fan
    startRegs,     \* monitor: what the PWM registers held when the process started
    lastKey,       \* monitor: the key dispatched by the last step ("" when none)
    nkeys,         \* monitor: number of keys dispatched so far
    lastIn,        \* menu: the lines of input consumed by the last iteration
    nops,          \* menu: number of menu iterations so far
    calls,         \* menu: set-percentage calls of the last step: <<channel, percentage>>
    rt             \* round trip: the last write/read pair under observation

vars == <<prog, dev, ec, pc, out, slept, writes, failed, PWM_VALUES, selected_fan, startRegs,
          lastKey, nkeys, lastIn, nops, calls, rt>>

----------------------------------------------------------------------------
(* Bounds of the model *)

MaxKeys == 5          \* keys dispatched in one monitor session
MaxOps == 2           \* menu iterations in one menu session
PctHi == 130          \* largest percentage passed to a set-percentage operation
PctBelow == 10        \* the smallest percentage passed is -PctBelow

(* Program constants *)

ECSize == 256         \* bytes of EC register space (f.read(256))
ByteMax == 255        \* upper clamp of a PWM byte
ByteMin == 0          \* lower clamp of a PWM byte
PwmStep == 10         \* step of the 'w' / 's' keys

Offsets == 0 .. (ECSize - 1)
Bytes == 0 .. ByteMax

DevStates == {"absent", "readonly", "readwrite"}
CanRead == dev # "absent"       \* open(EC_PATH, "rb") succeeds
CanWrite == dev = "readwrite"   \* open(EC_PATH, "r+b") succeeds

\* the device file appears, disappears or changes its write support
EnvDevice(d) ==
    /\ d # dev
    /\ pc \notin {"exited", "crashed", "quit"}
    /\ dev' = d
    /\ UNCHANGED <<prog, ec, pc, out, slept, writes, failed, PWM_VALUES,
                   selected_fan, startRegs, lastKey, nkeys, lastIn, nops, calls, rt>>

Min(a, b) == IF a <= b THEN a ELSE b
Max(a, b) == IF a >= b THEN a ELSE b

----------------------------------------------------------------------------
(* ec_fans_monitor.py: register access.  None of the three catches an      *)
(* exception: a failed open raises out of the function.                    *)

\* read_byte: seek(offset), read one byte, unpack "B"
read_byte(file, offset) == file[offset]

\* read_word: seek(offset), read two bytes, unpack "<H" (little endian)
read_word(file, offset) == file[offset] + 256 * file[offset + 1]

\* write_byte: seek(offset), write pack("B", value)
write_byte(file, offset, value) == [file EXCEPT ![offset] = value]

RPM_OFFSETS == <<40, 52, 54>>

\* fan index -> PWM register offset (0: SysFan, 1: Fan1, 2: Fan2)
FAN_PWM_MAP == [fan \in 0 .. 2 |-> 7 + fan]

Fans == DOMAIN FAN_PWM_MAP

\* the keys a session may deliver: the digits, 'w', 's' and two unbound keys
Keys == {"1", "2", "3", "w", "s", "x", "4"}

\* int(c) for one decimal digit
DigitValue(c) ==
    CASE c = "0" -> 0 [] c = "1" -> 1 [] c = "2" -> 2 [] c = "3" -> 3 [] c = "4" -> 4
      [] c = "5" -> 5 [] c = "6" -> 6 [] c = "7" -> 7 [] c = "8" -> 8 [] c = "9" -> 9

\* 'w' without the upper clamp, 's' without the lower clamp
AdjustUnclamped(c, v) ==
    IF c = "w" THEN v + PwmStep ELSE IF c = "s" THEN v - PwmStep ELSE v

\* the new tracked value of the selected fan after key c
Adjust(c, v) ==
    IF c = "w" THEN Min(v + PwmStep, ByteMax)
    ELSE IF c = "s" THEN Max(v - PwmStep, ByteMin)
    ELSE v

\* a key dispatch that writes the adjusted value to the register of fan 0
KeyOffsetFixed(fan) == FAN_PWM_MAP[0]

\* the register a 'w' / 's' key writes: that of the selected fan
KeyOffset(fan) == FAN_PWM_MAP[fan]

\* what the PWM registers may hold when the monitor starts
StartBytes == {5, 250}

MenuIdle ==
    /\ slept = FALSE /\ lastIn = <<>> /\ nops = 0 /\ calls = <<>>

RtIdle == rt = [fn |-> "none", offset |-> 0, value |-> 0, wrote |-> FALSE,
                read |-> FALSE, result |-> 0]

MonInit ==
    /\ ec \in {[o \in Offsets |-> IF o \in {FAN_PWM_MAP[f] : f \in Fans}
                                  THEN s[o - 7] ELSE 0] :
               s \in [Fans -> StartBytes]}
    /\ prog = "monitor"
    /\ dev \in DevStates
    /\ pc = "start"
    /\ out = <<>>
    /\ writes = <<>>
    /\ failed = 0
    /\ PWM_VALUES = [fan \in Fans |-> 0]
    /\ selected_fan = 0
    /\ startRegs = [fan \in Fans |-> ec[FAN_PWM_MAP[fan]]]
    /\ lastKey = ""
    /\ nkeys = 0
    /\ MenuIdle /\ RtIdle

MonFrame == UNCHANGED <<prog, dev, slept, startRegs, lastIn, nops, calls, rt>>

\* line 50: PWM_VALUES = {fan: read_byte(offset) ...}; the reads run in
\* fan order and the first failed open raises out of the module.
MonStartup ==
    /\ pc = "start"
    /\ IF CanRead
       THEN /\ PWM_VALUES' = [fan \in Fans |-> read_byte(ec, FAN_PWM_MAP[fan])]
            /\ pc' = "loop"
            /\ out' = <<"banner">>
       ELSE /\ pc' = "crashed"
            /\ out' = <<"traceback">>
            /\ UNCHANGED PWM_VALUES
    /\ failed' = IF CanRead THEN 0 ELSE 1
    /\ selected_fan' = 0
    /\ lastKey' = ""
    /\ writes' = <<>>
    /\ UNCHANGED <<ec, nkeys>>
    /\ MonFrame

\* lines 57-67, no key pending: read the RPM words, print the status line, sleep.
\* A failed open in read_word is no KeyboardInterrupt: it leaves the try block
\* uncaught and ends the process without the restore.
MonPoll ==
    /\ pc = "loop"
    /\ IF CanRead
       THEN pc' = "loop" /\ out' = <<"status">>
       ELSE pc' = "crashed" /\ out' = <<"traceback">>
    /\ failed' = IF CanRead THEN 0 ELSE 1
    /\ lastKey' = ""
    /\ writes' = <<>>
    /\ UNCHANGED <<ec, PWM_VALUES, selected_fan, nkeys>>
    /\ MonFrame

\* lines 57-75 with a key pending: status line, then the dispatch of key c.
\* (Line 75 holds the assignment and the write_byte call of the 's' branch;
\* they are read as the two statements of the 'w' branch.)
MonKey(c) ==
    /\ pc = "loop"
    /\ CanRead
    /\ nkeys < MaxKeys
    /\ nkeys' = nkeys + 1
    /\ lastKey' = c
    /\ failed' = IF c \in {"w", "s"} /\ ~CanWrite THEN 1 ELSE 0
    /\ IF c \in {"1", "2", "3"}
       THEN /\ selected_fan' = DigitValue(c) - 1
            /\ writes' = <<>>
            /\ out' = <<"status">>
            /\ UNCHANGED <<ec, PWM_VALUES, pc>>
       ELSE IF c \in {"w", "s"}
       THEN /\ PWM_VALUES' = [PWM_VALUES EXCEPT
                                ![selected_fan] = Adjust(c, PWM_VALUES[selected_fan])]
            /\ writes' = << <<KeyOffset(selected_fan), PWM_VALUES'[selected_fan], CanWrite>> >>
            /\ IF CanWrite
               THEN /\ ec' = write_byte(ec, KeyOffset(selected_fan),
                                        PWM_VALUES'[selected_fan])
                    /\ out' = <<"status">>
                    /\ UNCHANGED pc
               ELSE /\ pc' = "crashed"
                    /\ out' = <<"status", "traceback">>
                    /\ UNCHANGED ec
            /\ UNCHANGED selected_fan
       ELSE /\ writes' = <<>>
            /\ out' = <<"status">>
            /\ UNCHANGED <<ec, PWM_VALUES, selected_fan, pc>>
    /\ MonFrame

RECURSIVE RestoreFile(_, _, _)
\* the file after the restore loop wrote fans 0 .. n-1
RestoreFile(file, vals, n) ==
    IF n = 0 THEN file
    ELSE write_byte(RestoreFile(file, vals, n - 1), FAN_PWM_MAP[n - 1], vals[n - 1])

\* lines 77-80: KeyboardInterrupt in the loop; the handler writes
\* PWM_VALUES[fan] to every PWM register in fan order; the first write whose
\* open fails raises out of the handler.
MonInterrupt ==
    /\ pc = "loop"
    /\ ec' = RestoreFile(ec, PWM_VALUES, IF CanWrite THEN 3 ELSE 0)
    /\ writes' = [i \in 1 .. (IF CanWrite THEN 3 ELSE 1) |->
                    <<FAN_PWM_MAP[i - 1], PWM_VALUES[i - 1], CanWrite>>]
    /\ IF CanWrite
       THEN pc' = "exited" /\ out' = <<"restoring">>
       ELSE pc' = "crashed" /\ out' = <<"restoring", "traceback">>
    /\ failed' = IF CanWrite THEN 0 ELSE 1
    /\ lastKey' = ""
    /\ UNCHANGED <<PWM_VALUES, selected_fan, nkeys>>
    /\ MonFrame

MonNext ==
    \/ MonStartup
    \/ MonPoll
    \/ \E c \in Keys : MonKey(c)
    \/ MonInterrupt
    \/ \E d \in DevStates : EnvDevice(d)

SpecMon == MonInit /\ [][MonNext]_vars

----------------------------------------------------------------------------
(* Properties of the monitor variant *)

\* C1: when the polling loop is ended by an interrupt, every PWM register
\* (0x07, 0x08, 0x09) holds again the value it held when the process started,
\* whatever keys were dispatched in between.
C1_RestoresStartValues ==
    pc = "exited" => \A fan \in Fans : ec[FAN_PWM_MAP[fan]] = startRegs[fan]

\* C3: every tracked PWM value and every byte written to a PWM register lies
\* in [0,255]; 'w' from 250 gives 255 and stays there, 's' from 5 gives 0 and
\* stays there.
C3_PwmClamped ==
    pc # "start" =>
      /\ \A fan \in Fans : PWM_VALUES[fan] \in 0 .. 255
      /\ \A i \in DOMAIN writes : writes[i][2] \in 0 .. 255
      /\ \A fan \in Fans : ec[FAN_PWM_MAP[fan]] \in 0 .. 255
      /\ (lastKey = "w" /\ writes # <<>> /\ PWM_VALUES[selected_fan] < 255)
            => PWM_VALUES[selected_fan] >= 10
      /\ (lastKey = "s" /\ writes # <<>> /\ PWM_VALUES[selected_fan] > 0)
            => PWM_VALUES[selected_fan] <= 245
      /\ (nkeys = 1 /\ lastKey = "w" /\ startRegs[0] = 250) => PWM_VALUES[0] = 255
      /\ (nkeys = 1 /\ lastKey = "s" /\ startRegs[0] = 5) => PWM_VALUES[0] = 0

\* two 'w' from 250 on the selected fan: the value reached 255 and stayed
C3_Witness ==
    /\ pc = "loop" /\ nkeys = 2 /\ lastKey = "w" /\ selected_fan = 0
    /\ startRegs[0] = 250 /\ PWM_VALUES[0] = 255 /\ ec[FAN_PWM_MAP[0]] = 255

----------------------------------------------------------------------------
(* gmk_fan.py: register access.  read_ec and write_ec catch every          *)
(* exception of the open, seek, read and write.                            *)

\* what read_ec returns when the open fails
None == [o \in {} |-> 0]

\* read_ec: the ECSize bytes of the file, or None
read_ec(file, ok) == IF ok THEN [o \in Offsets |-> file[o]] ELSE None

\* a read_ec whose except branch prints nothing
read_ec_silent(ok) == <<>>

\* what read_ec prints
read_ec_out(ok) == IF ok THEN <<>> ELSE <<"Read failed">>

\* a write_ec that writes the byte after the one asked for
write_ec_off_by_one(file, offset, value, ok) ==
    IF ok THEN [file EXCEPT ![(offset + 1) % ECSize] = value % 256] ELSE file

\* write_ec: seek(offset), write bytes([value & 0xFF]); prints nothing and
\* leaves the file as it was when the open fails
write_ec(file, offset, value, ok) ==
    IF ok THEN [file EXCEPT ![offset] = value % 256] ELSE file

\* write_ec's return value
write_ec_result(ok) == ok

\* get_byte: data[offset] with Python's indexing (a negative offset counts
\* from the end); 0 on any exception (None, index out of range)
get_byte(data, offset) ==
    LET n == Cardinality(DOMAIN data)
    IN  IF offset \in 0 .. (n - 1) THEN data[offset]
        ELSE IF offset \in (0 - n) .. (0 - 1) THEN data[n + offset]
        ELSE 0

\* monitor_all_fans: the status screen, or the two diagnostics of a failed read
monitor_all_fans_out(ok) ==
    IF DOMAIN read_ec(ec, ok) = {}
    THEN read_ec_out(ok) \o <<"Cannot read EC data">>
    ELSE read_ec_out(ok) \o <<"status">>

----------------------------------------------------------------------------
(* gmk_fan.py: the set-percentage operations.  Each is the sequence of its *)
(* write_ec calls <<offset, value>>, in call order.                        *)

Buckets == <<20, 40, 60, 80, 100>>

Abs(x) == IF x < 0 THEN 0 - x ELSE x

RECURSIVE MinByDistance(_, _, _)
\* min(keys, key=lambda x: abs(x - percentage)): the first key of the least distance
MinByDistance(keys, p, best) ==
    IF keys = <<>> THEN best
    ELSE MinByDistance(Tail(keys), p,
                       IF Abs(Head(keys) - p) < Abs(best - p) THEN Head(keys) ELSE best)

fan1_mapping == (20 :> 34) @@ (40 :> 35) @@ (60 :> 36) @@ (80 :> 37) @@ (100 :> 38)

\* the bucket set_fan1_percentage selects
Fan1Closest(p) == MinByDistance(Tail(Buckets), p, Head(Buckets))

\* a percentage ladder shifted by one bucket boundary
LadderShifted(p, base) ==
    IF p < 20 THEN base ELSE IF p < 40 THEN base + 1 ELSE IF p < 60 THEN base + 2
    ELSE IF p < 80 THEN base + 3 ELSE base + 4

\* the if/elif ladder of set_fan2_percentage and set_sysfan_percentage
Ladder(p, base) ==
    IF p <= 20 THEN base ELSE IF p <= 40 THEN base + 1 ELSE IF p <= 60 THEN base + 2
    ELSE IF p <= 80 THEN base + 3 ELSE base + 4

\* set_fan1_percentage writing the speed before the enable
set_fan1_speed_first(p) == << <<36, fan1_mapping[Fan1Closest(p)]>>, <<35, 33>> >>

set_fan1_percentage(p) == << <<35, 33>>, <<36, fan1_mapping[Fan1Closest(p)]>> >>

set_fan2_percentage(p) == << <<33, 17>>, <<34, Ladder(p, 18)>> >>

set_sysfan_percentage(p) == << <<37, 49>>, <<38, Ladder(p, 50)>> >>

\* a set_auto_mode that leaves the Sysfan enable register alone
set_auto_mode_two == << <<35, 32>>, <<33, 16>> >>

set_auto_mode == << <<35, 32>>, <<33, 16>>, <<37, 48>> >>

SetCall(ch, p) ==
    CASE ch = 1 -> set_fan1_percentage(p)
      [] ch = 2 -> set_fan2_percentage(p)
      [] ch = 3 -> set_sysfan_percentage(p)

RECURSIVE ApplyWrites(_, _, _)
\* the file after the write_ec calls ws, in order
ApplyWrites(file, ws, ok) ==
    IF ws = <<>> THEN file
    ELSE ApplyWrites(write_ec(file, Head(ws)[1], Head(ws)[2], ok), Tail(ws), ok)

\* the write log entries of the calls ws
Logged(ws, ok) == [i \in DOMAIN ws |-> <<ws[i][1], ws[i][2], write_ec_result(ok)>>]

----------------------------------------------------------------------------
(* gmk_fan.py: input.  A line of input is a tuple of characters.           *)

IsSpace(ch) == ch \in {" ", "\t"}
Digits == {"0", "1", "2", "3", "4", "5", "6", "7", "8", "9"}

RECURSIVE LStrip(_)
LStrip(s) == IF s # <<>> /\ IsSpace(Head(s)) THEN LStrip(Tail(s)) ELSE s

RECURSIVE RStrip(_)
RStrip(s) ==
    IF s # <<>> /\ IsSpace(s[Len(s)]) THEN RStrip(SubSeq(s, 1, Len(s) - 1)) ELSE s

\* str.strip()
strip(s) == RStrip(LStrip(s))

RECURSIVE DecimalValue(_, _)
DecimalValue(s, acc) ==
    IF s = <<>> THEN acc ELSE DecimalValue(Tail(s), 10 * acc + DigitValue(Head(s)))

\* int(line): surrounding blanks and one sign are accepted; anything but a
\* non-empty run of digits after them is a ValueError (ok = FALSE)
py_int(line) ==
    LET t == strip(line)
        signed == t # <<>> /\ Head(t) \in {"-", "+"}
        body == IF signed THEN Tail(t) ELSE t
        good == body # <<>> /\ \A i \in DOMAIN body : body[i] \in Digits
        mag == IF good THEN DecimalValue(body, 0) ELSE 0
    IN  [ok |-> good, val |-> IF signed /\ Head(t) = "-" THEN 0 - mag ELSE mag]

\* the lines a user may type at "Enter choice: "
ChoiceLines ==
    { <<"1">>, <<"2">>, <<"3">>, <<"4">>, <<"5">>, <<"6">>, <<"q">>,
      <<" ", "5", " ">>, <<"7">>, <<>> }

\* the lines a user may type at a percentage prompt
PctLines == { <<" ", "4", "5">>, <<"-", "5">>, <<"4", "5", "%">> }

\* choice 4 reading a percentage, setting the fan, then reading the next
SetAllInterleaved(r1, r2, r3) ==
    IF ~r1.ok THEN <<>>
    ELSE <<<<1, r1.val>>>> \o
         (IF ~r2.ok THEN <<>>
          ELSE <<<<2, r2.val>>>> \o (IF ~r3.ok THEN <<>> ELSE <<<<3, r3.val>>>>))

\* choice 4: the set-percentage calls made, given the three parsed inputs;
\* all three int(input()) run before the first call
SetAllCalls(r1, r2, r3) ==
    IF r1.ok /\ r2.ok /\ r3.ok
    THEN << <<1, r1.val>>, <<2, r2.val>>, <<3, r3.val>> >>
    ELSE <<>>

RECURSIVE CallWrites(_)
\* the write_ec calls of a sequence of set-percentage calls
CallWrites(cs) ==
    IF cs = <<>> THEN <<>> ELSE SetCall(Head(cs)[1], Head(cs)[2]) \o CallWrites(Tail(cs))

\* the except Exception branch that only reports, without the pause
ErrorPauseNone == FALSE

\* lines 208-210: the pause after the report of a caught exception
ErrorPause == TRUE

\* lines 177-205: a choice that matches no branch falls through the chain
UnknownChoice == [report |-> <<>>, pause |-> FALSE]

----------------------------------------------------------------------------
(* gmk_fan.py: main.  One step is one iteration of the menu loop: the      *)
(* status screen, the menu, the input and its dispatch.                    *)

\* what the six enable / speed registers may hold when the menu starts:
\* never touched, all under manual control, all under BIOS control
MenuStartFiles ==
    { [o \in Offsets |-> 0],
      [o \in Offsets |-> CASE o = 35 -> 33 [] o = 36 -> 36 [] o = 33 -> 17
                           [] o = 34 -> 20 [] o = 37 -> 49 [] o = 38 -> 52
                           [] OTHER -> 0],
      [o \in Offsets |-> CASE o = 35 -> 32 [] o = 33 -> 16 [] o = 37 -> 48
                           [] OTHER -> 0] }

MonIdle ==
    /\ PWM_VALUES = [fan \in Fans |-> 0] /\ selected_fan = 0
    /\ startRegs = [fan \in Fans |-> 0] /\ lastKey = "" /\ nkeys = 0

MenuInit ==
    /\ prog = "menu"
    /\ dev \in DevStates
    /\ ec \in MenuStartFiles
    /\ pc = "menu"
    /\ out = <<>>
    /\ writes = <<>>
    /\ failed = 0
    /\ MenuIdle /\ MonIdle /\ RtIdle

MenuFrame == UNCHANGED <<prog, dev, PWM_VALUES, selected_fan, startRegs, lastKey,
                         nkeys, rt>>

ReadFails == IF CanRead THEN 0 ELSE 1

\* an iteration that read `lines` and made the set-percentage calls cs; with
\* `raised` an int() raised ValueError and the except Exception branch ran
MenuDoCalls(lines, cs, raised) ==
    LET ws == CallWrites(cs)
    IN  /\ ec' = ApplyWrites(ec, ws, CanWrite)
        /\ writes' = Logged(ws, CanWrite)
        /\ calls' = cs
        /\ failed' = ReadFails + (IF CanWrite THEN 0 ELSE Len(ws))
        /\ out' = monitor_all_fans_out(CanRead) \o [i \in DOMAIN cs |-> "Set"]
                    \o (IF raised THEN <<"Error">> ELSE <<>>)
        /\ slept' = IF raised THEN ErrorPause ELSE FALSE
        /\ lastIn' = lines
        /\ pc' = "menu"

\* choices '1', '2', '3': one percentage, one set-percentage call
MenuSetOne(line) ==
    /\ pc = "menu" /\ nops < MaxOps
    /\ strip(line) \in {<<"1">>, <<"2">>, <<"3">>}
    /\ nops' = nops + 1
    /\ \E pline \in PctLines :
         LET r == py_int(pline)
         IN  MenuDoCalls(<<line, pline>>,
                         IF r.ok THEN << <<DigitValue(strip(line)[1]), r.val>> >> ELSE <<>>,
                         ~r.ok)
    /\ MenuFrame

\* choice '4': three percentages, then the three calls.  The input lines
\* consumed end with the first one int() rejects.
MenuSetAll(line) ==
    /\ pc = "menu" /\ nops < MaxOps
    /\ strip(line) = <<"4">>
    /\ nops' = nops + 1
    /\ \E p1, p2, p3 \in PctLines :
         LET r1 == py_int(p1)
             r2 == py_int(p2)
             r3 == py_int(p3)
             lines == IF ~r1.ok THEN <<line, p1>>
                      ELSE IF ~r2.ok THEN <<line, p1, p2>>
                      ELSE <<line, p1, p2, p3>>
         IN  MenuDoCalls(lines, SetAllCalls(r1, r2, r3), ~(r1.ok /\ r2.ok /\ r3.ok))
    /\ MenuFrame

\* choice '5': set_auto_mode
MenuAuto(line) ==
    /\ pc = "menu" /\ nops < MaxOps
    /\ strip(line) = <<"5">>
    /\ nops' = nops + 1
    /\ ec' = ApplyWrites(ec, set_auto_mode, CanWrite)
    /\ writes' = Logged(set_auto_mode, CanWrite)
    /\ calls' = <<>>
    /\ failed' = ReadFails + (IF CanWrite THEN 0 ELSE Len(set_auto_mode))
    /\ out' = monitor_all_fans_out(CanRead) \o <<"auto">>
    /\ slept' = FALSE
    /\ lastIn' = <<line>>
    /\ pc' = "menu"
    /\ MenuFrame

\* choice '6': enter the continuous monitoring loop
MenuMonitorEnter(line) ==
    /\ pc = "menu" /\ nops < MaxOps
    /\ strip(line) = <<"6">>
    /\ nops' = nops + 1
    /\ out' = monitor_all_fans_out(CanRead) \o <<"Monitoring">>
    /\ failed' = ReadFails
    /\ writes' = <<>> /\ calls' = <<>> /\ slept' = FALSE
    /\ lastIn' = <<line>>
    /\ pc' = "monitoring"
    /\ UNCHANGED ec
    /\ MenuFrame

\* lines 200-203: one refresh of the monitoring loop
MenuMonitorTick ==
    /\ pc = "monitoring"
    /\ out' = monitor_all_fans_out(CanRead)
    /\ failed' = ReadFails
    /\ writes' = <<>> /\ calls' = <<>> /\ slept' = FALSE
    /\ lastIn' = <<>>
    /\ UNCHANGED <<ec, pc, nops>>
    /\ MenuFrame

\* lines 204-205: Ctrl-C in the monitoring loop returns to the menu
MenuMonitorLeave ==
    /\ pc = "monitoring"
    /\ pc' = "menu"
    /\ out' = <<>>
    /\ failed' = 0
    /\ writes' = <<>> /\ calls' = <<>> /\ slept' = FALSE
    /\ lastIn' = <<>>
    /\ UNCHANGED <<ec, nops>>
    /\ MenuFrame

\* choice 'q'
MenuQuit(line) ==
    /\ pc = "menu" /\ nops < MaxOps
    /\ strip(line) = <<"q">>
    /\ nops' = nops + 1
    /\ pc' = "quit"
    /\ out' = monitor_all_fans_out(CanRead)
    /\ failed' = ReadFails
    /\ writes' = <<>> /\ calls' = <<>> /\ slept' = FALSE
    /\ lastIn' = <<line>>
    /\ UNCHANGED ec
    /\ MenuFrame

\* lines 206-207: Ctrl-C at a prompt leaves the loop
MenuInterrupt ==
    /\ pc = "menu" /\ nops < MaxOps
    /\ nops' = nops + 1
    /\ pc' = "quit"
    /\ out' = monitor_all_fans_out(CanRead)
    /\ failed' = ReadFails
    /\ writes' = <<>> /\ calls' = <<>> /\ slept' = FALSE
    /\ lastIn' = <<>>
    /\ UNCHANGED ec
    /\ MenuFrame

ValidChoices == {<<"1">>, <<"2">>, <<"3">>, <<"4">>, <<"5">>, <<"6">>, <<"q">>}

\* any other choice: no branch of the chain matches
MenuUnknown(line) ==
    /\ pc = "menu" /\ nops < MaxOps
    /\ strip(line) \notin ValidChoices
    /\ nops' = nops + 1
    /\ out' = monitor_all_fans_out(CanRead) \o UnknownChoice.report
    /\ slept' = UnknownChoice.pause
    /\ failed' = ReadFails
    /\ writes' = <<>> /\ calls' = <<>>
    /\ lastIn' = <<line>>
    /\ pc' = "menu"
    /\ UNCHANGED ec
    /\ MenuFrame

MenuNext ==
    \/ \E line \in ChoiceLines : MenuSetOne(line)
    \/ \E line \in ChoiceLines : MenuSetAll(line)
    \/ \E line \in ChoiceLines : MenuAuto(line)
    \/ \E line \in ChoiceLines : MenuMonitorEnter(line)
    \/ MenuMonitorTick
    \/ MenuMonitorLeave
    \/ \E line \in ChoiceLines : MenuQuit(line)
    \/ MenuInterrupt
    \/ \E line \in ChoiceLines : MenuUnknown(line)
    \/ \E d \in DevStates : EnvDevice(d)

SpecMenu == MenuInit /\ [][MenuNext]_vars

----------------------------------------------------------------------------
(* The set-percentage operations applied to one percentage *)

PctRange == (0 - PctBelow) .. PctHi

PctInit ==
    /\ prog = "pct"
    /\ dev \in DevStates
    /\ ec \in MenuStartFiles
    /\ pc = "pct"
    /\ out = <<>>
    /\ writes = <<>>
    /\ failed = 0
    /\ MenuIdle /\ MonIdle /\ RtIdle

PctApply(ch, p) ==
    /\ pc = "pct"
    /\ pc' = "pctdone"
    /\ calls' = << <<ch, p>> >>
    /\ ec' = ApplyWrites(ec, SetCall(ch, p), CanWrite)
    /\ writes' = Logged(SetCall(ch, p), CanWrite)
    /\ failed' = IF CanWrite THEN 0 ELSE Len(SetCall(ch, p))
    /\ out' = <<"Set">>
    /\ UNCHANGED <<slept, lastIn, nops>>
    /\ MenuFrame

PctSetFan1(p) == PctApply(1, p)
PctSetFan2(p) == PctApply(2, p)
PctSetSysfan(p) == PctApply(3, p)

PctNext ==
    \/ \E p \in PctRange : PctSetFan1(p)
    \/ \E p \in PctRange : PctSetFan2(p)
    \/ \E p \in PctRange : PctSetSysfan(p)

SpecPct == PctInit /\ [][PctNext]_vars

----------------------------------------------------------------------------
(* A register write followed by a register read at the same offset, with   *)
(* the functions of either program                                         *)

\* the values handed to a write: every byte, and three values that are none
RtValues == Bytes \cup {0 - 1, 256, 300}

\* the write/read pairs tried: every offset with the values RtSomeValues, and
\* every value with the offsets RtSomeOffsets
RtSomeValues == {0, 170, 255, 0 - 1, 256, 300}
RtSomeOffsets == {0, 36, 255}
RtPairs == (Offsets \X RtSomeValues) \cup (RtSomeOffsets \X RtValues)

RtInit ==
    /\ prog = "roundtrip"
    /\ dev \in DevStates
    /\ ec = [o \in Offsets |-> (3 * o + 1) % 256]
    /\ pc = "rt"
    /\ out = <<>>
    /\ writes = <<>>
    /\ failed = 0
    /\ MenuIdle /\ MonIdle /\ RtIdle

RtFrame == UNCHANGED <<prog, dev, slept, PWM_VALUES, selected_fan, startRegs,
                       lastKey, nkeys, lastIn, nops, calls>>

\* write_ec(offset, value)
RtWriteEc(offset, value) ==
    /\ pc = "rt"
    /\ ec' = write_ec(ec, offset, value, CanWrite)
    /\ rt' = [rt EXCEPT !.fn = "write_ec", !.offset = offset, !.value = value,
                        !.wrote = write_ec_result(CanWrite)]
    /\ writes' = << <<offset, value, CanWrite>> >>
    /\ failed' = IF CanWrite THEN 0 ELSE 1
    /\ out' = <<>>
    /\ pc' = "written"
    /\ RtFrame

\* write_byte(offset, value): struct.pack("B", value) raises for a value that
\* is no byte, and a failed open raises as well
RtWriteByte(offset, value) ==
    /\ pc = "rt"
    /\ rt' = [rt EXCEPT !.fn = "write_byte", !.offset = offset, !.value = value,
                        !.wrote = CanWrite /\ value \in Bytes]
    /\ writes' = << <<offset, value, CanWrite /\ value \in Bytes>> >>
    /\ failed' = IF CanWrite THEN 0 ELSE 1
    /\ IF CanWrite /\ value \in Bytes
       THEN /\ ec' = write_byte(ec, offset, value)
            /\ pc' = "written"
            /\ out' = <<>>
       ELSE /\ pc' = "crashed"
            /\ out' = <<"traceback">>
            /\ UNCHANGED ec
    /\ RtFrame

\* get_byte(read_ec(), offset) after write_ec, read_byte(offset) after write_byte
RtRead ==
    /\ pc = "written"
    /\ IF rt.fn = "write_ec"
       THEN /\ rt' = [rt EXCEPT !.read = CanRead,
                                !.result = get_byte(read_ec(ec, CanRead), rt.offset)]
            /\ out' = read_ec_out(CanRead)
            /\ pc' = "read"
       ELSE IF CanRead
       THEN /\ rt' = [rt EXCEPT !.read = TRUE, !.result = read_byte(ec, rt.offset)]
            /\ out' = <<>>
            /\ pc' = "read"
       ELSE /\ pc' = "crashed"
            /\ out' = <<"traceback">>
            /\ UNCHANGED rt
    /\ failed' = ReadFails
    /\ writes' = <<>>
    /\ UNCHANGED ec
    /\ RtFrame

RtNext ==
    \/ (pc = "rt" /\ \E ov \in RtPairs : RtWriteEc(ov[1], ov[2]))
    \/ (pc = "rt" /\ \E ov \in RtPairs : RtWriteByte(ov[1], ov[2]))
    \/ RtRead
    \/ \E d \in DevStates : EnvDevice(d)

SpecRT == RtInit /\ [][RtNext]_vars

----------------------------------------------------------------------------
(* Both programs *)

BothInit == MonInit \/ MenuInit

BothNext == MonNext \/ MenuNext

SpecBoth == BothInit /\ [][BothNext]_vars

----------------------------------------------------------------------------
(* Properties of the menu variant *)

\* the choice of the last menu iteration, stripped; <<>> when none was read
LastChoice == IF lastIn # <<>> THEN strip(lastIn[1]) ELSE <<>>

\* the last iteration read a percentage line that int() rejects
LastPctBad == Len(lastIn) >= 2 /\ ~py_int(lastIn[Len(lastIn)]).ok

\* the last iteration read a choice that is none of 1-6 and q
LastChoiceUnknown == prog = "menu" /\ lastIn # <<>> /\ LastChoice \notin ValidChoices

AllWritesOk == \A i \in DOMAIN writes : writes[i][3]

WritesIssued == [i \in DOMAIN writes |-> <<writes[i][1], writes[i][2]>>]

\* the bucket a written speed byte stands for on channel ch
BucketOf(ch, v) == 20 + 20 * (v - (CASE ch = 1 -> 34 [] ch = 2 -> 18 [] ch = 3 -> 50))

BucketSet == {20, 40, 60, 80, 100}

\* C2 as stated: on each of the three channels and for every percentage p, the
\* speed byte written is that of a bucket minimizing |bucket - p| (p = 45
\* selects 40 on every channel).
C2_ClosestOnEveryChannel ==
    (prog = "pct" /\ pc = "pctdone") =>
        LET ch == calls[1][1]
            p == calls[1][2]
            b == BucketOf(ch, writes[2][2])
        IN  /\ writes[2][1] = (CASE ch = 1 -> 36 [] ch = 2 -> 34 [] ch = 3 -> 38)
            /\ b \in BucketSet
            /\ \A k \in BucketSet : Abs(b - p) <= Abs(k - p)
            /\ p = 45 => b = 40

\* C2 amended: set_fan1_percentage writes the byte of the bucket nearest to p,
\* the lower one on a tie; set_fan2_percentage and set_sysfan_percentage write
\* the byte of the smallest bucket >= p, and of bucket 100 when p > 80.  p = 45
\* selects 40 on Fan 1 and 60 on Fan 2 and Sysfan.
C2_ClosestFan1CeilingOthers ==
    (prog = "pct" /\ pc = "pctdone") =>
        LET ch == calls[1][1]
            p == calls[1][2]
            b == BucketOf(ch, writes[2][2])
        IN  /\ writes[2][1] = (CASE ch = 1 -> 36 [] ch = 2 -> 34 [] ch = 3 -> 38)
            /\ b \in BucketSet
            /\ ch = 1 => \A k \in BucketSet :
                            \/ Abs(b - p) < Abs(k - p)
                            \/ (Abs(b - p) = Abs(k - p) /\ b <= k)
            /\ (ch # 1 /\ p <= 100) => (b >= p /\ \A k \in BucketSet : k >= p => b <= k)
            /\ (ch # 1 /\ p > 80) => b = 100
            /\ p = 45 => b = (IF ch = 1 THEN 40 ELSE 60)

\* Fan 2 asked for 45 percent: the byte of bucket 60 was written
C2_Witness ==
    /\ prog = "pct" /\ pc = "pctdone" /\ calls = << <<2, 45>> >>
    /\ writes[2][2] = 20 /\ writes[2][3] /\ ec[34] = 20

\* C5: set_auto_mode issues the writes 0x23 := 32, 0x21 := 16, 0x25 := 48
\* whatever the registers held, and when the writes go through the three enable
\* registers hold those values afterwards.
C5_AutoModeDisablesAll ==
    (prog = "menu" /\ LastChoice = <<"5">>) =>
        /\ WritesIssued = << <<35, 32>>, <<33, 16>>, <<37, 48>> >>
        /\ AllWritesOk => (ec[35] = 32 /\ ec[33] = 16 /\ ec[37] = 48)

\* auto mode after a set-percentage operation had put Fan 1 under manual control
C5_Witness ==
    /\ prog = "menu" /\ nops = 2 /\ LastChoice = <<"5">> /\ AllWritesOk
    /\ ec[36] = 35 /\ ec[35] = 32 /\ ec[33] = 16 /\ ec[37] = 48

EnableOf == (36 :> <<35, 33>>) @@ (34 :> <<33, 17>>) @@ (38 :> <<37, 49>>)

\* C7: in every set-percentage operation the write of a channel's speed byte
\* comes right after the write of the enable value to that channel's enable
\* register (0x23 := 33, 0x21 := 17, 0x25 := 49).
C7_EnableBeforeSpeed ==
    prog = "menu" =>
        \A i \in DOMAIN writes :
            writes[i][1] \in DOMAIN EnableOf =>
                /\ i > 1
                /\ <<writes[i - 1][1], writes[i - 1][2]>> = EnableOf[writes[i][1]]

\* 'set all fans' went through: six writes, each speed after its enable
C7_Witness ==
    /\ prog = "menu" /\ Len(calls) = 3 /\ Len(writes) = 6 /\ AllWritesOk
    /\ ec[35] = 33 /\ ec[33] = 17 /\ ec[37] = 49

\* C8 as stated: every user-input error (a percentage that is no number, a
\* choice other than 1-6 and q) is reported with a message and followed by the
\* pause, and the loop goes on.
C8_EveryInputErrorReported ==
    (prog = "menu" /\ (LastPctBad \/ LastChoiceUnknown)) =>
        /\ out # <<>> /\ out[Len(out)] = "Error"
        /\ slept
        /\ pc = "menu"

\* C8 amended: a percentage that is no number is reported with a message and
\* followed by the pause; a choice other than 1-6 and q is ignored without
\* message or pause; in both cases no register is written and the loop goes on.
C8_BadPctReportedUnknownChoiceIgnored ==
    prog = "menu" =>
        /\ LastPctBad => /\ out # <<>> /\ out[Len(out)] = "Error"
                         /\ slept
                         /\ pc = "menu" /\ writes = <<>>
        /\ LastChoiceUnknown => /\ \A i \in DOMAIN out : out[i] # "Error"
                                /\ ~slept
                                /\ pc = "menu" /\ writes = <<>>

\* a percentage line that is no number was read and reported
C8_Witness ==
    /\ prog = "menu" /\ LastChoice = <<"2">> /\ LastPctBad
    /\ out[Len(out)] = "Error" /\ slept /\ pc = "menu"

\* C10: 'set all fans' parses the three percentages before it writes: when one
\* of them is no number no register is written, and when all three parse the
\* writes go to Fan 1, Fan 2, Sysfan in this order.
C10_SetAllParsesFirst ==
    [][(prog = "menu" /\ nops' = nops + 1 /\ LastChoice' = <<"4">>) =>
        IF LastPctBad'
        THEN writes' = <<>> /\ calls' = <<>> /\ ec' = ec
        ELSE /\ [i \in DOMAIN writes' |-> writes'[i][1]] = <<35, 36, 33, 34, 37, 38>>
             /\ [i \in DOMAIN calls' |-> calls'[i][1]] = <<1, 2, 3>>
    ]_vars

\* the second of the three percentages was no number: nothing was written
C10_Witness ==
    /\ prog = "menu" /\ LastChoice = <<"4">> /\ Len(lastIn) = 3 /\ LastPctBad
    /\ writes = <<>> /\ dev = "readwrite" /\ failed = 0

----------------------------------------------------------------------------
(* Properties of the register access *)

\* C6: for an offset and a byte value in [0,255], a write followed by a read
\* at the same offset returns the written value, for write_ec then
\* read_ec/get_byte and for write_byte then read_byte (both having gone through).
C6_WriteReadRoundTrip ==
    (prog = "roundtrip" /\ pc = "read" /\ rt.wrote /\ rt.read
        /\ rt.offset \in 0 .. 255 /\ rt.value \in 0 .. 255)
      => (rt.result = rt.value /\ ec[rt.offset] = rt.value)

\* write_ec(36, 170) then get_byte(read_ec(), 36) gave 170
C6_Witness ==
    /\ prog = "roundtrip" /\ pc = "read" /\ rt.fn = "write_ec" /\ rt.wrote /\ rt.read
    /\ rt.offset = 36 /\ rt.value = 170 /\ rt.result = 170

\* the number of failed opens of the last step that were opens for writing
FailedWrites == Cardinality({i \in DOMAIN writes : ~writes[i][3]})

\* C4 as stated: a failed open during any register operation of either
\* program does not raise past the caller: the program keeps running and a
\* diagnostic is printed.
C4_FailedOpenNeverRaises ==
    failed > 0 =>
        /\ pc # "crashed"
        /\ \E i \in DOMAIN out : out[i] \in {"Read failed", "Cannot read EC data"}

\* C4 amended: in the menu variant a failed open never raises past read_ec or
\* write_ec and the loop keeps running; read_ec prints a diagnostic, write_ec
\* prints none.  In the monitor variant a failed open raises out of read_byte,
\* read_word and write_byte and ends the process with a traceback.
C4_MenuCatchesMonitorRaises ==
    /\ prog = "menu" =>
         /\ pc \in {"menu", "monitoring", "quit"}
         /\ failed > FailedWrites =>
              (Len(out) >= 2 /\ out[1] = "Read failed" /\ out[2] = "Cannot read EC data")
         /\ failed = FailedWrites =>
              \A i \in DOMAIN out : out[i] \notin {"Read failed", "Cannot read EC data"}
    /\ prog = "monitor" =>
         /\ failed > 0 <=> pc = "crashed"
         /\ pc = "crashed" => out[Len(out)] = "traceback"

\* the menu went on after an iteration whose read and writes all failed
C4_Witness ==
    /\ prog = "menu" /\ pc = "menu" /\ failed = 3 /\ FailedWrites = 2
    /\ out[1] = "Read failed"

====
